---------------------------- MODULE Spec2Model ----------------------------
(***************************************************************************)
(* Model of src/aisp_template/main.py: the capture / transcribe / assemble *)
(* pipeline.  One asyncio event loop runs three kinds of coroutine:        *)
(*   - main()            the controller (lines 155-203),                    *)
(*   - recorder_loop()   the capture loop (lines 131-147),                  *)
(*   - transcribe_file() one task per finished capture (lines 111-123).     *)
(* An action is one event-loop step of one coroutine: the code between two *)
(* awaits.  The SIGINT handler is a callback of the same loop.             *)
(***************************************************************************)
EXTENDS Naturals, Integers, Sequences, FiniteSets, TLC

\* ------------------------------------------------------------------ bounds
\* Capture invocations the recorder may start in one run.
MaxSegments == 4

\* ------------------------------------------------------- program constants
CHUNK_SECONDS == 300

\* ------------------------------------------------------------- input sets
\* Wall-clock second of the day at which the recorder starts (09:59:59 and
\* 10:00:00): the first one crosses an hour, minute and second boundary.
StartClocks == {35999, 36000}

\* Seconds a capture invocation may take before proc.wait() returns: it
\* exits at once, exits within a second, or records the whole chunk.
Durations == {0, 1, CHUNK_SECONDS}

\* What the transcription service may answer for a readable chunk.
Texts == {"a", "b"}

\* -------------------------------------------------------------- variables
VARIABLES
    clock,       \* datetime.now(UTC) as the recorder reads it (second of day)
    rpc,         \* recorder task: where recorder_loop is suspended / how it ended
    segs,        \* capture invocations started so far: [id, status]
    tasks,       \* the list `tasks` of main(): one record per transcription task
    txt,         \* the .txt artifacts on disk: stem -> text
    completed,   \* indices of tasks in the order they completed
    stop_event,  \* asyncio.Event of main()
    mpc,         \* main(): where it is suspended / how it ended
    txt_files,   \* main()'s local list after gather + sort
    document,    \* the final merged file, or NoDoc
    outcome      \* what the process reported when it ended

vars == <<clock, rpc, segs, tasks, txt, completed, stop_event, mpc,
          txt_files, document, outcome>>

NoDoc == [name |-> <<>>, body |-> <<>>]

\* ---------------------------------------------------------- SegmentNamer
TwoDigits(n) == <<n \div 10, n % 10>>

\* start_ts.strftime("%Y%m%dT%H%M%SZ"): zero padded fields, most significant
\* first.  The date is the same for the whole run and is left out.
StrftimeSwapped(t) ==
    TwoDigits(t % 60) \o TwoDigits((t \div 60) % 60) \o TwoDigits(t \div 3600)

Strftime(t) ==
    TwoDigits(t \div 3600) \o TwoDigits((t \div 60) % 60) \o TwoDigits(t % 60)

\* Comparison of two paths temp/<stem>.txt: the stems, character by character.
LexLess(a, b) ==
    \E k \in 1..Len(a) :
        /\ k <= Len(b)
        /\ \A j \in 1..(k - 1) : a[j] = b[j]
        /\ a[k] < b[k]

\* ------------------------------------------------------- list.sort()
RECURSIVE InsertSorted(_, _)
InsertSorted(x, s) ==
    IF s = <<>> THEN <<x>>
    ELSE IF LexLess(x, Head(s)) THEN <<x>> \o s
    ELSE <<Head(s)>> \o InsertSorted(x, Tail(s))

RECURSIVE SortFrom(_, _)
SortFrom(s, acc) ==
    IF s = <<>> THEN acc ELSE SortFrom(Tail(s), InsertSorted(Head(s), acc))

Reverse(s) == [i \in 1..Len(s) |-> s[Len(s) + 1 - i]]

SortDescending(s) == Reverse(SortFrom(s, <<>>))

\* txt_files.sort(): ascending and stable.
Sort(s) == SortFrom(s, <<>>)


\* ------------------------------------------------------------ initial state
\* main() is suspended in stop_event.wait() (line 178): the recorder task
\* is created (line 165) and the SIGINT handler installed (line 176), no
\* task has run yet.
Init ==
    /\ clock \in StartClocks
    /\ rpc = "created"
    /\ segs = <<>>
    /\ tasks = <<>>
    /\ txt = <<>>
    /\ completed = <<>>
    /\ stop_event = FALSE
    /\ mpc = "wait_stop"
    /\ txt_files = <<>>
    /\ document = NoDoc
    /\ outcome = "running"

\* The process is alive: main() has neither returned nor raised.
Alive == mpc \notin {"done", "crashed"}

\* ------------------------------------------------------------ recorder_loop
\* Lines 135-140: name the segment after the current second and launch the
\* capture process; the coroutine suspends in create_subprocess_exec.
NewSegment(t) == [id |-> Strftime(t), status |-> "launching"]

SetLast(s, st) == [s EXCEPT ![Len(s)].status = st]

\* First step of the recorder task.
RecorderStart ==
    /\ Alive
    /\ rpc = "created"
    /\ rpc' = "launching"
    /\ segs' = Append(segs, NewSegment(clock))
    /\ UNCHANGED <<clock, tasks, txt, completed, stop_event, mpc, txt_files,
                   document, outcome>>

\* A loop that does not wait for the capture process: the transcription is
\* scheduled and the next segment started while this one is recording.
LaunchedWithoutWait ==
    /\ Alive
    /\ rpc = "launching"
    /\ Len(segs) < MaxSegments
    /\ rpc' = "launching"
    /\ tasks' = Append(tasks, [path |-> segs[Len(segs)].id, input |-> "missing",
                               state |-> "pending", text |-> ""])
    /\ segs' = Append(SetLast(segs, "recording"), NewSegment(clock))
    /\ UNCHANGED <<clock, txt, completed, stop_event, mpc, txt_files,
                   document, outcome>>

\* create_subprocess_exec returned (line 140); suspended in proc.wait().
Launched ==
    /\ Alive
    /\ rpc = "launching"
    /\ rpc' = "capturing"
    /\ segs' = SetLast(segs, "recording")
    /\ UNCHANGED <<clock, tasks, txt, completed, stop_event, mpc, txt_files,
                   document, outcome>>

\* create_subprocess_exec raised (ffmpeg cannot be launched).  Only
\* CancelledError is caught (line 146): the recorder task ends with the error.
LaunchFails ==
    /\ Alive
    /\ rpc = "launching"
    /\ rpc' = "raised"
    /\ segs' = SetLast(segs, "nolaunch")
    /\ UNCHANGED <<clock, tasks, txt, completed, stop_event, mpc, txt_files,
                   document, outcome>>

\* Lines 144-145: the task scheduled for a finished capture.  The exit status
\* of the capture process is not looked at.  The task opens its input at once
\* (line 113), so what it reads is what this capture left behind.
SpawnedTask(seg, oc) ==
    [path |-> seg.id,
     input |-> IF oc = "ok" THEN "complete" ELSE "missing",
     state |-> "pending",
     text |-> ""]

\* A loop that awaits the transcription of a segment before it goes on: the
\* capture cannot end its step while a worker is pending.
CaptureEndsAfterWorkers(d, oc) ==
    /\ Alive
    /\ rpc = "capturing"
    /\ Len(segs) < MaxSegments
    /\ \A i \in 1..Len(tasks) : tasks[i].state # "pending"
    /\ oc = "ok" => d = CHUNK_SECONDS
    /\ clock' = clock + d
    /\ tasks' = Append(tasks, SpawnedTask(segs[Len(segs)], oc))
    /\ segs' = Append(SetLast(segs, oc), NewSegment(clock'))
    /\ rpc' = "launching"
    /\ UNCHANGED <<txt, completed, stop_event, mpc, txt_files, document,
                   outcome>>

\* proc.wait() returned after d seconds (line 141), with the capture process
\* having succeeded (only after the whole chunk) or failed.  Lines 142-145
\* schedule the transcription, then the loop starts the next segment
\* (lines 135-140).  The last segment the bound allows stays in capture
\* until the signal.
CaptureEnds(d, oc) ==
    /\ Alive
    /\ rpc = "capturing"
    /\ Len(segs) < MaxSegments
    /\ oc = "ok" => d = CHUNK_SECONDS
    /\ clock' = clock + d
    /\ tasks' = Append(tasks, SpawnedTask(segs[Len(segs)], oc))
    /\ segs' = Append(SetLast(segs, oc), NewSegment(clock'))
    /\ rpc' = "launching"
    /\ UNCHANGED <<txt, completed, stop_event, mpc, txt_files, document,
                   outcome>>

\* ---------------------------------------------------------- transcribe_file
WriteTxt(disk, p, t) ==
    [x \in (DOMAIN disk) \cup {p} |-> IF x = p THEN t ELSE disk[x]]

\* Lines 113-123: the service answered with text t; the .txt is written
\* next to the audio and its path returned.
TaskSucceeds(i, t) ==
    /\ Alive
    /\ i \in 1..Len(tasks)
    /\ tasks[i].state = "pending"
    /\ tasks[i].input = "complete"
    /\ tasks' = [tasks EXCEPT ![i].state = "ok", ![i].text = t]
    /\ txt' = WriteTxt(txt, tasks[i].path, t)
    /\ completed' = Append(completed, i)
    /\ UNCHANGED <<clock, rpc, segs, stop_event, mpc, txt_files, document,
                   outcome>>

\* Lines 113-118 raised: the audio file is missing or the service call
\* failed.  The exception is kept in the task.
TaskFails(i) ==
    /\ Alive
    /\ i \in 1..Len(tasks)
    /\ tasks[i].state = "pending"
    /\ tasks' = [tasks EXCEPT ![i].state = "failed"]
    /\ completed' = Append(completed, i)
    /\ UNCHANGED <<clock, rpc, segs, txt, stop_event, mpc, txt_files,
                   document, outcome>>

\* ------------------------------------------------------------ SIGINT handler
\* recorder.cancel() (line 173): no effect on a finished task;
\* otherwise CancelledError is thrown at the await the recorder is suspended
\* in, caught at line 146, and recorder_loop returns.
CancelIgnored(r) == r

CancelOnlyRecording(r) == IF r = "capturing" THEN "cancelled" ELSE r

Cancel(r) == IF r \in {"launching", "capturing"} THEN "cancelled" ELSE r

\* Lines 171-174.  The handler is a callback of the loop that main() runs on;
\* the recorder's first step is queued before the handler can be.
Sigint ==
    /\ Alive
    /\ rpc # "created"
    /\ rpc' = Cancel(rpc)
    /\ segs' = IF rpc = "capturing" THEN SetLast(segs, "aborted")
               ELSE IF rpc = "launching" THEN SetLast(segs, "unlaunched")
               ELSE segs
    /\ stop_event' = TRUE
    /\ UNCHANGED <<clock, tasks, txt, completed, mpc, txt_files, document,
                   outcome>>

\* ---------------------------------------------------------------- main()
\* asyncio.run() (line 207) cancels every task still pending when main()
\* has ended.
CancelAll(ts) ==
    [i \in 1..Len(ts) |->
        IF ts[i].state = "pending" THEN [ts[i] EXCEPT !.state = "cancelled"]
        ELSE ts[i]]

\* Lines 178-182, the recorder returned after its cancellation.
AwaitRecorderReturns ==
    /\ mpc = "wait_stop"
    /\ stop_event
    /\ rpc = "cancelled"
    /\ mpc' = "gather"
    /\ UNCHANGED <<clock, rpc, segs, tasks, txt, completed, stop_event,
                   txt_files, document, outcome>>

\* A controller that also wakes up when the recorder task ends: the error
\* of the recorder ends main() without any signal.
RecorderErrorEndsMain ==
    /\ mpc = "wait_stop"
    /\ rpc = "raised"
    /\ mpc' = "crashed"
    /\ outcome' = "fault"
    /\ tasks' = CancelAll(tasks)
    /\ UNCHANGED <<clock, rpc, segs, txt, completed, stop_event, txt_files,
                   document>>

\* Lines 178-182, the recorder had raised: only CancelledError is
\* suppressed, so main() raises and the process ends.
AwaitRecorderRaises ==
    /\ mpc = "wait_stop"
    /\ stop_event
    /\ rpc = "raised"
    /\ mpc' = "crashed"
    /\ outcome' = "fault"
    /\ tasks' = CancelAll(tasks)
    /\ UNCHANGED <<clock, rpc, segs, txt, completed, stop_event, txt_files,
                   document>>

\* asyncio.gather(*tasks) (line 185): the results in the order of `tasks`.
GatherResultButLast(ts) == [i \in 1..(Len(ts) - 1) |-> ts[i].path]

GatherResult(ts) == [i \in 1..Len(ts) |-> ts[i].path]

\* await asyncio.gather(*tasks) (line 185) returns when every task has
\* returned its path.
NotAwaited(ts) == TRUE

AllReturned(ts) == \A i \in 1..Len(ts) : ts[i].state = "ok"

\* Line 185 returns once every task has a result; line 186 sorts the paths.
GatherReturns ==
    /\ mpc = "gather"
    /\ AllReturned(tasks)
    /\ txt_files' = Sort(GatherResult(tasks))
    /\ mpc' = "assembling"
    /\ UNCHANGED <<clock, rpc, segs, tasks, txt, completed, stop_event,
                   document, outcome>>

\* Line 185 with return_exceptions=False: the first exception of a task is
\* raised in main(), which nothing catches; the process ends.
GatherRaises ==
    /\ mpc = "gather"
    /\ \E i \in 1..Len(tasks) : tasks[i].state = "failed"
    /\ mpc' = "crashed"
    /\ outcome' = "fault"
    /\ tasks' = CancelAll(tasks)
    /\ UNCHANGED <<clock, rpc, segs, txt, completed, stop_event, txt_files,
                   document>>

\* Lines 192-200: the merged file, named after the first and the last stem,
\* one delimiter line and one text per path.
MergedNamedByFirst(files, disk) ==
    [name |-> <<files[1], files[1]>>,
     body |-> [i \in 1..Len(files) |->
                  [stem |-> files[i], text |-> disk[files[i]]]]]

Merged(files, disk) ==
    [name |-> <<files[1], files[Len(files)]>>,
     body |-> [i \in 1..Len(files) |->
                  [stem |-> files[i], text |-> disk[files[i]]]]]

\* Lines 191-203.
Assemble ==
    /\ mpc = "assembling"
    /\ IF txt_files # <<>>
       THEN /\ document' = Merged(txt_files, txt)
            /\ outcome' = "document"
       ELSE /\ document' = NoDoc
            /\ outcome' = "no_transcripts"
    /\ mpc' = "done"
    /\ UNCHANGED <<clock, rpc, segs, tasks, txt, completed, stop_event,
                   txt_files>>

\* ------------------------------------------------------------ specification
Next ==
    \/ RecorderStart
    \/ Launched
    \/ LaunchFails
    \/ \E d \in Durations, oc \in {"ok", "failed"} : CaptureEnds(d, oc)
    \/ \E i \in 1..MaxSegments, t \in Texts : TaskSucceeds(i, t)
    \/ \E i \in 1..MaxSegments : TaskFails(i)
    \/ Sigint
    \/ AwaitRecorderReturns
    \/ AwaitRecorderRaises
    \/ GatherReturns
    \/ GatherRaises
    \/ Assemble

Spec == Init /\ [][Next]_vars

\* ------------------------------------------------------------ vocabulary
\* main() has returned or raised: the process has ended.
Terminated == mpc \in {"done", "crashed"}

TaskIds == 1..Len(tasks)

AllTasksOk == \A i \in TaskIds : tasks[i].state = "ok"

\* The document has an entry for stem p.
HasEntry(p) == \E k \in 1..Len(document.body) : document.body[k].stem = p

\* ------------------------------------------------------------------ claims

\* C1: when every captured segment was transcribed, whatever the order in
\* which the transcriptions completed, the document has exactly one entry
\* per segment, the entries are those of the segments in capture order, and
\* their ids are strictly ascending.
C1_OneEntryPerSegmentAscending ==
    (mpc = "done" /\ AllTasksOk) =>
        /\ Len(document.body) = Len(tasks)
        /\ \A i \in TaskIds : document.body[i].stem = tasks[i].path
        /\ \A i \in TaskIds : \A j \in TaskIds :
              i < j => LexLess(document.body[i].stem, document.body[j].stem)

\* Three segments transcribed, the last one first, and merged.
C1_Witness ==
    /\ mpc = "done"
    /\ Len(document.body) = 3
    /\ completed = <<3, 1, 2>>

\* C2: a signal that arrives while segment K is being captured lets the
\* capture finish; a worker is spawned for K and, when it succeeds, the final
\* document contains K's entry.
C2_InterruptedSegmentTranscribed ==
    \A k \in 1..Len(segs) :
        (Terminated /\ segs[k].status = "aborted") =>
            /\ k \in TaskIds
            /\ tasks[k].state = "ok" => HasEntry(segs[k].id)

\* C3: once the signal has been delivered the capture loop starts no capture
\* invocation, and no capture is under way once draining has begun.
C3_NoCaptureAfterShutdown ==
    /\ [][stop_event =>
            /\ Len(segs') = Len(segs)
            /\ rpc' \notin {"launching", "capturing"}]_vars
    /\ [](mpc # "wait_stop" => rpc \notin {"created", "launching", "capturing"})

\* The signal arrived during a capture, with room for more segments, and the
\* controller is draining.
C3_Witness ==
    /\ stop_event
    /\ mpc = "gather"
    /\ Len(segs) = 2
    /\ segs[2].status = "aborted"

\* C4: when the transcription of J fails and those of J-1 and J+1 succeed,
\* a document is still produced, with the entries of J-1 and J+1 next to
\* each other and none for J.  Stated for the runs whose capture loop ended
\* by the signal.
C4_FailedSegmentSkipped ==
    \A j \in TaskIds :
        ( /\ Terminated
          /\ rpc = "cancelled"
          /\ j - 1 \in TaskIds
          /\ j + 1 \in TaskIds
          /\ tasks[j].state = "failed"
          /\ tasks[j - 1].state = "ok"
          /\ tasks[j + 1].state = "ok" ) =>
            /\ outcome = "document"
            /\ ~HasEntry(tasks[j].path)
            /\ \E k \in 1..(Len(document.body) - 1) :
                  /\ document.body[k].stem = tasks[j - 1].path
                  /\ document.body[k + 1].stem = tasks[j + 1].path

\* C5: when no segment was transcribed (none captured, or every worker
\* failed), the run ends by reporting that there is no transcript, with no
\* document and no unhandled fault.  Stated for the runs whose capture loop
\* ended by the signal.
C5_NoTranscriptsReported ==
    ( /\ Terminated
      /\ rpc = "cancelled"
      /\ \A i \in TaskIds : tasks[i].state # "ok" ) =>
        /\ outcome = "no_transcripts"
        /\ document = NoDoc

\* C6: every spawned worker has run to its own completion, success or
\* failure, when the pipeline terminates: none is in flight, none was
\* cancelled.  Stated for the runs whose capture loop ended by the signal.
C6_AllWorkersJoined ==
    (Terminated /\ rpc = "cancelled") =>
        \A i \in TaskIds : tasks[i].state \in {"ok", "failed"}

\* C7: a segment whose capture invocation failed gets no worker (the worker
\* of the k-th capture is the k-th task), and the loop starts the next
\* segment.
C7_FailedCaptureNotTranscribed ==
    \A k \in 1..Len(segs) :
        segs[k].status = "failed" =>
            /\ k \notin TaskIds
            /\ k < Len(segs)

\* C8: after the signal, a run that has ended has produced the merged
\* document or reported that there is none.
C8_EndsWithDocumentOrReport ==
    (Terminated /\ stop_event /\ rpc = "cancelled") =>
        outcome \in {"document", "no_transcripts"}

\* The successful results of a run: (segment id, text) pairs.
SuccessResults ==
    {<<tasks[i].path, tasks[i].text>> : i \in {k \in TaskIds : tasks[k].state = "ok"}}

\* The document a set of results determines: its entries by ascending id.
DocumentOf(S) ==
    LET n == Cardinality(S)
        ord == CHOOSE f \in [1..n -> S] :
                   \A i \in 1..n : \A j \in 1..n :
                       i < j => LexLess(f[i][1], f[j][1])
    IN  [name |-> <<ord[1][1], ord[n][1]>>,
         body |-> [i \in 1..n |-> [stem |-> ord[i][1], text |-> ord[i][2]]]]

\* C9: the assembled document, name and content, is the one its set of
\* successful results determines, whatever the order in which the workers
\* completed or were registered.
C9_DocumentDeterminedByResults ==
    outcome = "document" => document = DocumentOf(SuccessResults)

\* Two results merged, the second one having completed first.
C9_Witness ==
    /\ outcome = "document"
    /\ completed = <<2, 1>>
    /\ tasks[1].text # tasks[2].text

\* C10: the signal leaves every in-flight worker as it is, and a worker in
\* flight when or after the signal is delivered is never cancelled: it ends
\* with its own result.  The second part is stated for the runs whose
\* capture loop ended by the signal.
C10_SignalSparesWorkers ==
    [][ /\ stop_event' # stop_event => tasks' = tasks
        /\ (stop_event /\ rpc = "cancelled") =>
              \A i \in TaskIds :
                  tasks[i].state = "pending" => tasks'[i].state # "cancelled"
      ]_vars

\* C11: cancellation is monotonic and idempotent: stop_event, once set, stays
\* set, and a signal delivered in any state after the first one (capture
\* loop winding down, drain, assembly) changes nothing: not the segments,
\* not the workers, not the document.
C11_SecondSignalChangesNothing ==
    [][ /\ stop_event => stop_event'
        /\ (stop_event /\ Sigint) => UNCHANGED vars ]_vars

\* The first signal has been handled, the controller is at the barrier with
\* a worker in flight, and the handler can run again.
C11_Witness ==
    /\ stop_event
    /\ mpc = "gather"
    /\ \E i \in TaskIds : tasks[i].state = "pending"
    /\ ENABLED Sigint

\* C12: the drain is a full barrier: whenever the controller is assembling
\* (reading the results, writing the document) or has assembled, every
\* registered worker has completed; none is still running.
C12_DrainIsFullBarrier ==
    mpc \in {"assembling", "done"} =>
        \A i \in TaskIds : tasks[i].state \in {"ok", "failed"}

\* The controller is assembling after a barrier that two workers reached in
\* the reverse of their registration order.
C12_Witness ==
    /\ mpc = "assembling"
    /\ Len(tasks) = 2
    /\ completed = <<2, 1>>

\* C13: the failure of one worker is contained: the step in which it fails
\* leaves the capture loop as it is, and no other worker is ever cancelled
\* or ends without its own result because a worker has failed.  The second
\* part is stated for the runs whose capture loop ended by the signal.
C13_WorkerFailureContained ==
    [][ /\ (\E i \in TaskIds : tasks[i].state = "pending"
                               /\ tasks'[i].state = "failed")
              => UNCHANGED <<rpc, segs, clock>>
        /\ (rpc = "cancelled" /\ \E j \in TaskIds : tasks[j].state = "failed")
              => \A i \in TaskIds :
                    tasks[i].state = "pending" =>
                        tasks'[i].state \in {"pending", "ok", "failed"}
      ]_vars

\* C14: any two segments started in one run have different ids and the one
\* started earlier has the lexically smaller id, also when a capture ends
\* at once and the next segment starts within the same second.
C14_SegmentIdsUniqueAndOrdered ==
    \A i \in 1..Len(segs) : \A j \in 1..Len(segs) :
        i < j => LexLess(segs[i].id, segs[j].id)

\* C15: each segment is consumed exactly once: every finished capture has
\* its one worker, and no two workers are handed the same media path (and
\* so none would write the same text path).
C15_EachSegmentConsumedOnce ==
    /\ \A k \in 1..Len(segs) :
          segs[k].status \in {"ok", "failed"} => k \in TaskIds
    /\ Len(tasks) <= Len(segs)
    /\ \A i \in TaskIds : \A j \in TaskIds :
          i # j => tasks[i].path # tasks[j].path

\* A capture invocation that has been started and has not ended.
InProgress(k) == segs[k].status \in {"launching", "recording"}

\* C16: capture is strictly serial: at most one capture invocation is in
\* progress, it is the last one started, and every earlier one has ended
\* before the next was started.
C16_CaptureIsSerial ==
    /\ Cardinality({k \in 1..Len(segs) : InProgress(k)}) <= 1
    /\ \A k \in 1..Len(segs) :
          k < Len(segs) => segs[k].status \in {"ok", "failed"}
    /\ \A k \in 1..Len(segs) :
          InProgress(k) <=> (k = Len(segs) /\ rpc \in {"launching", "capturing"})

\* The third segment is being recorded, the two before it have ended.
C16_Witness ==
    /\ Len(segs) = 3
    /\ segs[3].status = "recording"
    /\ segs[1].status = "ok"
    /\ segs[2].status = "failed"

\* C17: spawning a worker does not block the capture loop and workers do not
\* block each other: a capture in progress can end, register its worker and
\* start the next segment whatever the state of the workers, and every
\* pending worker can complete whatever the state of the others.
C17_WorkersDoNotBlock ==
    /\ (rpc = "capturing" /\ Len(segs) < MaxSegments) =>
          ENABLED (\E d \in Durations, oc \in {"ok", "failed"} : CaptureEnds(d, oc))
    /\ \A i \in TaskIds :
          tasks[i].state = "pending" =>
              /\ ENABLED TaskFails(i)
              /\ tasks[i].input = "complete" =>
                    ENABLED (\E t \in Texts : TaskSucceeds(i, t))

\* The third segment is being recorded while the workers of the first two
\* are both still pending.
C17_Witness ==
    /\ Len(segs) = 3
    /\ rpc = "capturing"
    /\ Len(tasks) = 2
    /\ tasks[1].state = "pending"
    /\ tasks[2].state = "pending"
    /\ ENABLED TaskFails(2)

\* The ids of the successfully transcribed segments.
SuccessIds == {tasks[i].path : i \in {k \in TaskIds : tasks[k].state = "ok"}}

\* C18: a document that is produced is named after the smallest and the
\* largest id among the successfully transcribed segments, and each of its
\* entries carries, before the text, the id of the segment the text is the
\* transcript of.
C18_NameAndDelimiters ==
    outcome = "document" =>
        /\ document.name[1] \in SuccessIds
        /\ \A p \in SuccessIds : p = document.name[1] \/ LexLess(document.name[1], p)
        /\ document.name[2] \in SuccessIds
        /\ \A p \in SuccessIds : p = document.name[2] \/ LexLess(p, document.name[2])
        /\ \A k \in 1..Len(document.body) :
              \E i \in TaskIds :
                  /\ tasks[i].state = "ok"
                  /\ tasks[i].path = document.body[k].stem
                  /\ tasks[i].text = document.body[k].text

\* A document of two entries with different texts, transcribed in capture
\* order.
C18_Witness ==
    /\ outcome = "document"
    /\ completed = <<1, 2>>
    /\ document.name[1] # document.name[2]
    /\ document.body[1].text # document.body[2].text

\* C19: the controller leaves its wait only because of the signal: draining,
\* assembling and the end of the run are reached only with stop_event set,
\* and while the recorder has raised and no signal has arrived the
\* controller keeps waiting: no worker is cancelled or joined by it, no
\* document or report is produced.
C19_OnlySignalEndsRunning ==
    /\ mpc # "wait_stop" => stop_event
    /\ (rpc = "raised" /\ ~stop_event) =>
          /\ mpc = "wait_stop"
          /\ outcome = "running"
          /\ document = NoDoc
          /\ \A i \in TaskIds : tasks[i].state # "cancelled"

\* The capture process of the second segment could not be launched, the
\* worker of the first is still pending, and no signal has arrived.
C19_Witness ==
    /\ rpc = "raised"
    /\ ~stop_event
    /\ Len(tasks) = 1
    /\ tasks[1].state = "pending"
    /\ mpc = "wait_stop"

\* C20: the registry of worker handles is frozen before the barrier reads
\* it: the controller starts the drain only when the capture loop has ended,
\* from then on no handle is added, and the handles the barrier has awaited
\* are those of all the workers ever spawned.
C20_RegistryFrozenAtBarrier ==
    /\ [](mpc # "wait_stop" => rpc \in {"cancelled", "raised"})
    /\ [][mpc # "wait_stop" =>
            /\ Len(tasks') = Len(tasks)
            /\ \A i \in TaskIds : tasks'[i].path = tasks[i].path]_vars
    /\ [](mpc = "assembling" =>
            /\ Len(txt_files) = Len(tasks)
            /\ \A i \in TaskIds :
                  \E k \in 1..Len(txt_files) : txt_files[k] = tasks[i].path)

\* The drain has begun with three handles registered, the last of them
\* still pending.
C20_Witness ==
    /\ mpc = "gather"
    /\ Len(tasks) = 3
    /\ tasks[3].state = "pending"
    /\ tasks[1].state = "ok"

=============================================================================
